---------------------------- MODULE Spec2Model ----------------------------
(***************************************************************************)
(* A model of trident/parser.py: the score line decoder                    *)
(* (score_str_to_dict), the canonical encoder (score_dict_to_str), the     *)
(* reference validator (validate_reference, get_reference), the GFF        *)
(* renderer (score_dict_to_gff) and the key-frequency aggregator           *)
(* (map_input_files, over Parser.next and parse_file).                    *)
(*                                                                         *)
(* Python strings are TLA+ strings; a Python call either returns a value   *)
(* or raises, and is modelled as a tagged outcome:                         *)
(*   [kind |-> "none", ...]   the call returned None                       *)
(*   [kind |-> "dict", ...]   the call returned a dict                     *)
(*   [kind |-> "str", ...]    the call returned a string                   *)
(*   [kind |-> "raise", ...]  the call raised the named exception          *)
(***************************************************************************)
EXTENDS Integers, Sequences, FiniteSets, TLC

VARIABLES
    \* ---- one decoder / renderer run (Spec) ----
    line,           \* the raw line handed to score_str_to_dict
    ignore_offset,  \* the decoder's ignore_offset argument
    pc,             \* position of the run
    hit,            \* outcome of score_str_to_dict(line, ignore_offset)
    encoded,        \* outcome of score_dict_to_str(hit)
    redecoded,      \* outcome of score_str_to_dict(encoded, ignore_offset)
    gff,            \* outcome of score_dict_to_gff(hit)
    \* ---- one validator run (SpecValidate) ----
    score,          \* the score dict handed to the validator
    validation,     \* outcome of validate_reference(score)
    reference,      \* outcome of get_reference(score)
    \* ---- one map_input_files invocation (SpecAgg) ----
    infilenames,    \* the ordered list of source names
    is_hadoop,      \* TRUE: count and continue, FALSE: fail fast
    apc,            \* position in map_input_files
    idx,            \* index in infilenames of the source of the for loop
    parser,         \* the Parser object bound to the local `parser`
    consumed,       \* per source, the lines readline() has returned so far
    eof,            \* the sources whose readline() has returned ''
    hit_map,        \* the frequency dict being accumulated
    counters,       \* "reporter:counter" lines written to stderr
    openFiles,      \* sources opened by open() and not yet closed
    result          \* how the invocation ended

decVars == <<line, ignore_offset, pc, hit, encoded, redecoded, gff>>
valVars == <<score, validation, reference>>
aggVars == <<infilenames, is_hadoop, apc, idx, parser, consumed, eof,
             hit_map, counters, openFiles, result>>
vars == <<decVars, valVars, aggVars>>

-----------------------------------------------------------------------------
(* Python built-ins the parser calls, computed as Python computes them.     *)

Char(s, i) == SubSeq(s, i, i)

Min(a, b) == IF a < b THEN a ELSE b

\* the characters str.strip() removes among those the inputs use
Whitespace == {" ", "\t", "\n"}

DigitChars == <<"0", "1", "2", "3", "4", "5", "6", "7", "8", "9">>

IsDigitChar(c) == \E d \in 1..10 : DigitChars[d] = c

DigitVal(c) == (CHOOSE d \in 1..10 : DigitChars[d] = c) - 1

RECURSIVE str_lstrip(_)
str_lstrip(s) ==
    IF Len(s) > 0 /\ Char(s, 1) \in Whitespace
    THEN str_lstrip(SubSeq(s, 2, Len(s)))
    ELSE s

RECURSIVE str_rstrip(_)
str_rstrip(s) ==
    IF Len(s) > 0 /\ Char(s, Len(s)) \in Whitespace
    THEN str_rstrip(SubSeq(s, 1, Len(s) - 1))
    ELSE s

\* s.strip()
str_strip(s) == str_rstrip(str_lstrip(s))

\* s.split(sep) for a one-character sep: always at least one token
RECURSIVE str_split(_, _)
str_split(s, sep) ==
    LET at == {i \in 1..Len(s) : Char(s, i) = sep} IN
    IF at = {} THEN <<s>>
    ELSE LET i == CHOOSE j \in at : \A k \in at : j <= k IN
         <<SubSeq(s, 1, i - 1)>> \o str_split(SubSeq(s, i + 1, Len(s)), sep)

\* sep.join(parts)
RECURSIVE str_join(_, _)
str_join(sep, parts) ==
    IF Len(parts) = 0 THEN ""
    ELSE IF Len(parts) = 1 THEN parts[1]
    ELSE parts[1] \o sep \o str_join(sep, Tail(parts))

\* sub in s, for a one-character sub
str_contains(s, sub) == \E i \in 1..Len(s) : Char(s, i) = sub

\* s.isdigit()
str_isdigit(s) == Len(s) > 0 /\ \A i \in 1..Len(s) : IsDigitChar(Char(s, i))

RECURSIVE digits_value(_)
digits_value(s) ==
    IF Len(s) = 0 THEN 0
    ELSE 10 * digits_value(SubSeq(s, 1, Len(s) - 1)) + DigitVal(Char(s, Len(s)))

\* int(s): surrounding whitespace and one sign are accepted; anything else
\* than decimal digits raises ValueError
py_int(s) ==
    LET t == str_strip(s)
        signed == Len(t) > 0 /\ Char(t, 1) \in {"+", "-"}
        body == IF signed THEN SubSeq(t, 2, Len(t)) ELSE t
    IN  IF str_isdigit(body)
        THEN [ok |-> TRUE,
              val |-> IF signed /\ Char(t, 1) = "-"
                      THEN 0 - digits_value(body) ELSE digits_value(body)]
        ELSE [ok |-> FALSE, val |-> 0]

\* "%d" % n
RECURSIVE nat_to_str(_)
nat_to_str(n) ==
    IF n < 10 THEN DigitChars[n + 1]
    ELSE nat_to_str(n \div 10) \o DigitChars[(n % 10) + 1]

int_to_str(n) == IF n < 0 THEN "-" \o nat_to_str(0 - n) ELSE nat_to_str(n)

\* dict(zip(keys, values)): zip stops at the shorter of the two
dict_zip(keys, values) ==
    LET n == Min(Len(keys), Len(values)) IN
    [k \in {keys[i] : i \in 1..n} |->
        values[CHOOSE i \in 1..n : keys[i] = k /\ \A j \in 1..n : keys[j] = k => j <= i]]

\* d[k] = v
dict_set(d, k, v) == [x \in (DOMAIN d) \cup {k} |-> IF x = k THEN v ELSE d[x]]

-----------------------------------------------------------------------------
(* Module constants.                                                        *)

score_keys ==
    <<"query_id", "reference_id", "score", "energy", "query_coords",
      "ref_coords", "length", "identity", "similarity", "query_seq",
      "match_seq", "reference_seq", "orientation", "match_type",
      "base_type", "query_start", "query_end", "ref_start", "ref_end">>

reference_keys ==
    <<"chromosome", "chunk", "seg_offset", "seq_size",
      "chunk_size", "iso_date", "assembly", "species">>

\* the keys set from the coordinate pairs, not read from the line
derived_keys == <<"query_start", "query_end", "ref_start", "ref_end">>

ReturnNone(msg) == [kind |-> "none", stderr |-> msg]
ReturnDict(d) == [kind |-> "dict", value |-> d]
ReturnStr(s) == [kind |-> "str", value |-> s]
Raise(exc, msg) == [kind |-> "raise", exc |-> exc, msg |-> msg]
NotRun == [kind |-> "notrun"]

-----------------------------------------------------------------------------
(* score_str_to_dict                                                        *)

\* decode_offset with the isdigit() test dropped: any segment int() accepts
\* is taken as the offset
decode_offset_unchecked(ref_id, ignore) ==
    IF ~ignore /\ str_contains(ref_id, "|")
    THEN LET tokens == str_split(ref_id, "|") IN
         IF Len(tokens) < 3 THEN [missing |-> TRUE, offset |-> 0]
         ELSE IF py_int(tokens[3]).ok
              THEN [missing |-> FALSE, offset |-> py_int(tokens[3]).val]
              ELSE [missing |-> FALSE, offset |-> 0]
    ELSE [missing |-> FALSE, offset |-> 0]

\* lines 189-199: the offset added to the reference coordinates;
\* "missing" when a '|'-delimited reference_id has fewer than 3 segments
decode_offset(ref_id, ignore) ==
    IF ~ignore /\ str_contains(ref_id, "|")
    THEN LET tokens == str_split(ref_id, "|") IN
         IF Len(tokens) < 3 THEN [missing |-> TRUE, offset |-> 0]
         ELSE IF str_isdigit(tokens[3])
              THEN [missing |-> FALSE, offset |-> py_int(tokens[3]).val]
              ELSE [missing |-> FALSE, offset |-> 0]
    ELSE [missing |-> FALSE, offset |-> 0]

\* line 202 and line 209: the test that rejects a coordinate field
coords_broken(tokens) == Len(tokens) < 2

\* lines 201-215: the coordinate pairs, in the order the code parses them
decode_coords(d, offset) ==
    LET rtok == str_split(d["ref_coords"], " ")
        qtok == str_split(d["query_coords"], " ")
    IN  IF coords_broken(rtok) THEN ReturnNone("Broken reference coordinates.\n")
        ELSE IF ~py_int(rtok[1]).ok \/ ~py_int(rtok[2]).ok
             THEN Raise("ValueError", "invalid literal for int()")
        ELSE IF coords_broken(qtok) THEN ReturnNone("Broken query coordinates.\n")
        ELSE IF ~py_int(qtok[1]).ok \/ ~py_int(qtok[2]).ok
             THEN Raise("ValueError", "invalid literal for int()")
        ELSE ReturnDict(
               dict_set(dict_set(dict_set(dict_set(d,
                 "ref_start", py_int(rtok[1]).val + offset),
                 "ref_end", py_int(rtok[2]).val + offset),
                 "query_start", py_int(qtok[1]).val),
                 "query_end", py_int(qtok[2]).val))

score_str_to_dict(ln, ignore) ==
    IF Len(ln) = 0 THEN ReturnNone("")
    ELSE LET l1 == IF Char(ln, 1) = ">" THEN SubSeq(ln, 2, Len(ln)) ELSE ln IN
         IF Len(l1) = 0 \/ Char(l1, 1) = ">" THEN ReturnNone("")
         ELSE LET l2 == str_strip(l1)
                  tokens == str_split(l2, ",")
              IN  IF Len(tokens) # Len(score_keys) - 4
                  THEN ReturnNone("Invalid score line: \"" \o l2 \o "\"\n")
                  ELSE LET d == dict_zip(score_keys, tokens)
                           off == decode_offset(d["reference_id"], ignore)
                       IN  IF off.missing
                           THEN ReturnNone("Missing sequence offset.\nSequence: " \o l2)
                           ELSE decode_coords(d, off.offset)

-----------------------------------------------------------------------------
(* score_dict_to_str                                                        *)

printed_keys == SelectSeq(score_keys, LAMBDA k : \A i \in 1..Len(derived_keys) : derived_keys[i] # k)

score_dict_to_str(d) ==
    IF \E i \in 1..Len(printed_keys) : printed_keys[i] \notin DOMAIN d
    THEN Raise("KeyError", "")
    ELSE ReturnStr(">" \o str_join(",", [i \in 1..Len(printed_keys) |-> d[printed_keys[i]]]))

-----------------------------------------------------------------------------
(* zip_reference, validate_reference, get_reference                         *)

zip_reference(d) == dict_zip(reference_keys, str_split(d["reference_id"], "|"))

\* raw_segment_offset with the one-indexed chunk number not decremented
raw_segment_offset_not_decremented(chunk_size, chunk_number) ==
    70 * chunk_size * chunk_number - 70

\* line 90: the offset the chunk geometry gives, before the first-chunk case
raw_segment_offset(chunk_size, chunk_number) ==
    70 * chunk_size * (chunk_number - 1) - 70

\* actual_segment_offset without the first-chunk case
actual_segment_offset_no_first_chunk(chunk_size, chunk_number) ==
    70 * chunk_size * (chunk_number - 1) - 70

\* lines 90-93
actual_segment_offset(chunk_size, chunk_number) ==
    IF raw_segment_offset(chunk_size, chunk_number) = -70
    THEN 0
    ELSE raw_segment_offset(chunk_size, chunk_number)

\* lines 95-99
offset_mismatch(actual, expected) == actual # expected

\* lines 80-99: the three int() conversions in the code's order, then the check
check_offset(references) ==
    IF "chunk" \notin DOMAIN references THEN Raise("KeyError", "chunk")
    ELSE IF ~py_int(references["chunk"]).ok
         THEN Raise("ValueError", "invalid literal for int()")
    ELSE IF "chunk_size" \notin DOMAIN references THEN Raise("KeyError", "chunk_size")
    ELSE IF ~py_int(references["chunk_size"]).ok
         THEN Raise("ValueError", "invalid literal for int()")
    ELSE IF "seg_offset" \notin DOMAIN references THEN Raise("KeyError", "seg_offset")
    ELSE IF ~py_int(references["seg_offset"]).ok
         THEN Raise("ValueError", "invalid literal for int()")
    ELSE LET chunk_number == py_int(references["chunk"]).val
             chunk_size == py_int(references["chunk_size"]).val
             expected == py_int(references["seg_offset"]).val
             actual == actual_segment_offset(chunk_size, chunk_number)
         IN  IF offset_mismatch(actual, expected)
             THEN Raise("BrokenScore",
                        "Segment offset is not the expected value.\nExpected: "
                        \o int_to_str(expected) \o "\nComputed: " \o int_to_str(actual))
             ELSE ReturnNone("")

validate_reference(d) ==
    IF Cardinality(DOMAIN d) # Len(score_keys)
    THEN Raise("BrokenScore", "Invalid number of fields in Trident Score.")
    ELSE IF "reference_id" \notin DOMAIN d
         THEN Raise("BrokenScore", "Missing reference section in score")
    ELSE IF ~str_contains(d["reference_id"], "|")
         THEN Raise("BrokenScore", "Broken reference section in score.")
    ELSE check_offset(zip_reference(d))

\* `not score`: None, or a dict with no entries
falsy(v) == v.kind = "none" \/ (v.kind = "dict" /\ DOMAIN v.value = {})

get_reference(v) ==
    IF falsy(v) THEN ReturnNone("")
    ELSE LET checked == validate_reference(v.value) IN
         IF checked.kind = "raise" THEN checked
         ELSE ReturnDict(zip_reference(v.value))

-----------------------------------------------------------------------------
(* score_dict_to_gff                                                        *)

\* float(s) for plain decimal literals (sign, digits, optional fraction), the
\* only numerals the inputs use: the value in millionths, exact up to six
\* fractional digits, which is also the precision "%f" prints
py_float(s) ==
    LET t == str_strip(s)
        signed == Len(t) > 0 /\ Char(t, 1) \in {"+", "-"}
        body == IF signed THEN SubSeq(t, 2, Len(t)) ELSE t
        parts == str_split(body, ".")
        ipart == parts[1]
        fpart == IF Len(parts) = 2 THEN parts[2] ELSE ""
        wellformed == /\ Len(parts) <= 2
                      /\ Len(ipart) + Len(fpart) > 0
                      /\ \A i \in 1..Len(ipart) : IsDigitChar(Char(ipart, i))
                      /\ \A i \in 1..Len(fpart) : IsDigitChar(Char(fpart, i))
        frac6 == SubSeq(fpart \o "000000", 1, 6)
        micro == digits_value(ipart) * 1000000 + digits_value(frac6)
    IN  IF wellformed
        THEN [ok |-> TRUE,
              val |-> IF signed /\ Char(t, 1) = "-" THEN 0 - micro ELSE micro]
        ELSE [ok |-> FALSE, val |-> 0]

\* "%d" % x for a float x: truncation toward zero
fmt_d_float(micro) ==
    IF micro < 0 THEN int_to_str(0 - ((0 - micro) \div 1000000))
    ELSE int_to_str(micro \div 1000000)

\* "%f" % x
fmt_f(micro) ==
    LET a == IF micro < 0 THEN 0 - micro ELSE micro
        f == nat_to_str(a % 1000000)
    IN  (IF micro < 0 THEN "-" ELSE "") \o nat_to_str(a \div 1000000) \o "."
        \o SubSeq("000000", 1, 6 - Len(f)) \o f

\* lines 132-135
strand(orientation) == IF orientation = "parallel" THEN "+" ELSE "-"

\* line 127 and line 139: the chromosome column
gff_chromosome(ref) == ref["chromosome"]

\* lines 127-141, once the reference is validated
gff_line(d, ref) ==
    IF \E k \in {"base_type", "ref_start", "ref_end", "score", "orientation",
                 "query_id", "energy"} : k \notin DOMAIN d
    THEN Raise("KeyError", "")
    ELSE IF ~py_float(d["score"]).ok \/ ~py_float(d["energy"]).ok
         THEN Raise("ValueError", "could not convert string to float")
    ELSE ReturnStr(
           gff_chromosome(ref) \o "\t" \o ".\t" \o d["base_type"] \o "\t"
           \o int_to_str(d["ref_start"]) \o "\t" \o int_to_str(d["ref_end"]) \o "\t"
           \o fmt_d_float(py_float(d["score"]).val) \o "\t"
           \o strand(d["orientation"]) \o "\t" \o ".\t"
           \o "Name=" \o d["query_id"]
           \o ";Energy=" \o fmt_f(py_float(d["energy"]).val)
           \o ";Chr=" \o gff_chromosome(ref)
           \o ";GenomeStartPos=" \o int_to_str(d["ref_start"]))

score_dict_to_gff(v) ==
    IF falsy(v) THEN ReturnNone("")
    ELSE IF Cardinality(DOMAIN v.value) # Len(score_keys)
         THEN Raise("BrokenScore", "Invalid number of fields in Trident Score.")
    ELSE LET ref == get_reference(v) IN
         IF ref.kind = "raise" THEN ref
         ELSE gff_line(v.value, ref.value)

-----------------------------------------------------------------------------
(* Inputs of the decoder runs.                                              *)

\* the 15 wire fields of a score line; all but four are those of the
\* end-to-end line
WireFields(query_id, reference_id, query_coords, ref_coords) ==
    <<query_id, reference_id, "42", "3.5", query_coords, ref_coords, "100",
      "0.9", "0.95", "ACGT", "ACGT", "ACGT", "parallel", "match", "genic">>

E2ELine ==
    ">Q1,R1|5|0|1000|10|2020-01-01|hg38|human,42,3.5,10 20,30 40,100,0.9,0.95,ACGT,ACGT,ACGT,parallel,match,genic"

LinePrefixes == {"", ">", ">>", "> >", " >"}

ReferenceIds ==
    {"R1|5|0|1000|10|2020-01-01|hg38|human",     \* offset 0, chunk 5
     "chr2|1|0|1000|10|2020-01-01|hg38|human",   \* offset 0, first chunk
     "chr2|3|1330|1000|10|2020-01-01|hg38|human",\* offset 1330
     "chr2|3|x|1000|10|2020-01-01|hg38|human",   \* third segment not all-digit
     "chr2|3|-70|1000|10",                       \* signed third segment
     "chr2|50",                                  \* two segments only
     "chr2"}                                     \* no '|'

RefCoords == {"30 40", "30", "30 40 50", "30  40", "a b", "30 b", ""}

QueryCoords == {"10 20", "10", "10 20 30", "x 20"}

\* a line of 14, 15 or 16 comma-separated tokens
TokenLists(fields) ==
    {SubSeq(fields, 1, Len(fields) - 1), fields, fields \o <<"extra">>}

InputLines ==
    {"", ">", " "}
    \cup {pre \o str_join(",", toks) :
            pre \in LinePrefixes,
            toks \in UNION {TokenLists(WireFields("Q1", rid, qc, rc)) :
                              rid \in ReferenceIds, qc \in QueryCoords, rc \in RefCoords}}

-----------------------------------------------------------------------------
(* Spec: one line is decoded, then either encoded and decoded again, or     *)
(* rendered as a GFF line.                                                  *)

AggIdle ==
    /\ infilenames = <<>>
    /\ is_hadoop = FALSE
    /\ apc = "idle"
    /\ idx = 0
    /\ parser = NotRun
    /\ consumed = <<>>
    /\ eof = {}
    /\ hit_map = <<>>
    /\ counters = 0
    /\ openFiles = {}
    /\ result = NotRun

ValIdle ==
    /\ score = NotRun
    /\ validation = NotRun
    /\ reference = NotRun

DecIdle ==
    /\ line = ""
    /\ ignore_offset = FALSE
    /\ hit = NotRun
    /\ encoded = NotRun
    /\ redecoded = NotRun
    /\ gff = NotRun

Init ==
    /\ line \in InputLines
    /\ ignore_offset \in BOOLEAN
    /\ pc = "start"
    /\ hit = NotRun
    /\ encoded = NotRun
    /\ redecoded = NotRun
    /\ gff = NotRun
    /\ ValIdle
    /\ AggIdle

Decode ==
    /\ pc = "start"
    /\ hit' = score_str_to_dict(line, ignore_offset)
    /\ pc' = "decoded"
    /\ UNCHANGED <<line, ignore_offset, encoded, redecoded, gff, valVars, aggVars>>

Encode ==
    /\ pc = "decoded"
    /\ hit.kind = "dict"
    /\ encoded' = score_dict_to_str(hit.value)
    /\ pc' = "encoded"
    /\ UNCHANGED <<line, ignore_offset, hit, redecoded, gff, valVars, aggVars>>

Redecode ==
    /\ pc = "encoded"
    /\ encoded.kind = "str"
    /\ redecoded' = score_str_to_dict(encoded.value, ignore_offset)
    /\ pc' = "redecoded"
    /\ UNCHANGED <<line, ignore_offset, hit, encoded, gff, valVars, aggVars>>

Render ==
    /\ pc = "decoded"
    /\ hit.kind \in {"none", "dict"}
    /\ gff' = score_dict_to_gff(hit)
    /\ pc' = "rendered"
    /\ UNCHANGED <<line, ignore_offset, hit, encoded, redecoded, valVars, aggVars>>

Next == Decode \/ Encode \/ Redecode \/ Render

Spec == Init /\ [][Next]_vars

-----------------------------------------------------------------------------
(* SpecValidate: one score dict is handed to validate_reference and to      *)
(* get_reference.                                                           *)

\* the largest chunk number of the generated reference ids
MaxChunk == 4

ChunkSizes == {0, 1, 2, 10}

SegOffsets == {-70, 0, 70, 630, 1330, 2030, 2730}

\* a decoded score dict, whose reference_id the inputs replace
BaseScore == score_str_to_dict(E2ELine, TRUE).value

dict_del(d, k) == [x \in (DOMAIN d) \ {k} |-> d[x]]

GridReferenceId(chunk, seg_offset, chunk_size) ==
    str_join("|", <<"chr2", int_to_str(chunk), int_to_str(seg_offset), "1000",
                    int_to_str(chunk_size), "2020-01-01", "hg38", "human">>)

GridReferenceIds ==
    {GridReferenceId(c, o, z) : c \in 0..MaxChunk, o \in SegOffsets, z \in ChunkSizes}

\* reference ids with fewer than 8 segments, or non-integer segments
OddReferenceIds ==
    {"chr2", "chr2|1", "chr2|1|0", "chr2|1|0|1000", "chr2|1|0|1000|10",
     "chr2|3|1330|1000|10|2020-01-01", "chr2|a|0|1000|10", "chr2|1|0|1000|x",
     "chr2|1|zz|1000|10", "chr2| 3|+1330|1000|10", "|||||||"}

ValidatorInputs ==
    {ReturnDict(dict_set(BaseScore, "reference_id", rid)) :
        rid \in GridReferenceIds \cup OddReferenceIds}
    \cup {ReturnDict(dict_del(dict_set(BaseScore, "reference_id", rid), "ref_end")) :
            rid \in {"chr2|1|0|1000|10", "chr2"}}
    \cup {ReturnDict(dict_set(dict_set(BaseScore, "reference_id", rid), "extra", "x")) :
            rid \in {"chr2|1|0|1000|10", "chr2"}}
    \cup {ReturnDict(dict_set(dict_del(BaseScore, "reference_id"), "extra", "x")),
          ReturnDict(dict_zip(<<>>, <<>>)),
          ReturnNone("")}

InitValidate ==
    /\ score \in ValidatorInputs
    /\ validation = NotRun
    /\ reference = NotRun
    /\ pc = "start"
    /\ DecIdle
    /\ AggIdle

Validate ==
    /\ pc = "start"
    /\ score.kind = "dict"
    /\ validation' = validate_reference(score.value)
    /\ pc' = "validated"
    /\ UNCHANGED <<score, reference, line, ignore_offset, hit, encoded, redecoded, gff, aggVars>>

GetReference ==
    /\ pc = "start"
    /\ reference' = get_reference(score)
    /\ pc' = "referenced"
    /\ UNCHANGED <<score, validation, line, ignore_offset, hit, encoded, redecoded, gff, aggVars>>

NextValidate == Validate \/ GetReference

SpecValidate == InitValidate /\ [][NextValidate]_vars

-----------------------------------------------------------------------------
(* SpecAgg: one invocation of map_input_files.  The lines of the sources    *)
(* are supplied by the environment, one per readline().                     *)

\* the most lines a source holds
MaxLines == 2

SourceLists ==
    {<<>>, <<"a.txt">>, <<"/dev/stdin">>, <<"a.txt", "b.txt">>,
     <<"/dev/stdin", "a.txt">>, <<"a.txt", "a.txt">>}

FileLine(fields) == ">" \o str_join(",", fields) \o "\n"

LineA == FileLine(WireFields("QA", "chr2|1|0|1000|10|2020-01-01|hg38|human", "10 20", "30 40"))
LineB == FileLine(WireFields("QB", "chr2|3|1330|1000|10|2020-01-01|hg38|human", "10 20", "30 40"))
LineShort == FileLine(SubSeq(WireFields("QA", "chr2|1|0|1000|10", "10 20", "30 40"), 1, 14))
LineBlank == "\n"
LineBadInt == FileLine(WireFields("QA", "chr2|1|0|1000|10|2020-01-01|hg38|human", "10 20", "a b"))

FileLines == {LineA, LineB, LineShort, LineBlank, LineBadInt}

\* the key function the caller passes to map_input_files
key_gen_function(d) == d["query_id"]

\* lines 231-235 for a line readline() returned (not EOF)
parse_file(l, ignore) ==
    LET stripped == str_strip(l)
        out == score_str_to_dict(stripped, ignore)
    IN  IF out.kind = "raise" THEN out
        ELSE [kind |-> "tuple", score |-> out, line |-> stripped]

\* parse_file over the lines of the sources, computed once
ParsedLines == [l \in FileLines |-> parse_file(l, FALSE)]

EmptyDict == [k \in {} |-> 0]

\* lines 337-340
count_hit(m, key) ==
    IF key \in DOMAIN m THEN [m EXCEPT ![key] = m[key] + 1]
    ELSE dict_set(m, key, 1)

\* on_broken_hit with the policy flag ignored
on_broken_hit_always_continue(hadoop) == "continue"

\* lines 327-334: what a hit that is None leads to
on_broken_hit(hadoop) == IF hadoop THEN "continue" ELSE "raise"

\* the file objects the frame of map_input_files still references: the one
\* of `parser` (and `infile`), until the function returns; an exception's
\* traceback keeps the frame
Referenced ==
    IF apc \in {"for", "iter", "raised"} /\ parser # NotRun THEN {parser.file} ELSE {}

InitAgg ==
    /\ infilenames \in SourceLists
    /\ is_hadoop \in BOOLEAN
    /\ apc = "for"
    /\ idx = 0
    /\ parser = NotRun
    /\ consumed = [i \in 1..Len(infilenames) |-> <<>>]
    /\ eof = {}
    /\ hit_map = EmptyDict
    /\ counters = 0
    /\ openFiles = {}
    /\ result = NotRun
    /\ pc = "idle"
    /\ DecIdle
    /\ ValIdle

\* lines 318-324: the next source is bound to `infile` and wrapped in a Parser
OpenNext ==
    /\ apc = "for"
    /\ idx < Len(infilenames)
    /\ idx' = idx + 1
    /\ openFiles' = IF infilenames[idx + 1] = "/dev/stdin" THEN openFiles
                    ELSE openFiles \cup {idx + 1}
    /\ parser' = [kind |-> "Parser", file |-> idx + 1,
                  name |-> IF infilenames[idx + 1] = "/dev/stdin" THEN "<stdin>"
                           ELSE infilenames[idx + 1],
                  last_line |-> "", ignore_offset |-> FALSE]
    /\ apc' = "iter"
    /\ UNCHANGED <<infilenames, is_hadoop, consumed, eof, hit_map, counters, result,
                   decVars, valVars>>

\* line 325 with Parser.next and parse_file, then lines 326-340
ReadLine ==
    /\ apc = "iter"
    /\ \E l \in FileLines \cup {""} :
        /\ l # "" => Len(consumed[idx]) < MaxLines
        /\ IF l = ""
           THEN \* readline() returned '': StopIteration ends the for loop
                /\ eof' = eof \cup {idx}
                /\ apc' = "for"
                /\ UNCHANGED <<consumed, parser, hit_map, counters, result>>
           ELSE /\ consumed' = [consumed EXCEPT ![idx] = Append(@, l)]
                /\ eof' = eof
                /\ LET got == ParsedLines[l] IN
                   IF got.kind = "raise"
                   THEN /\ apc' = "raised"
                        /\ result' = got
                        /\ UNCHANGED <<parser, hit_map, counters>>
                   ELSE /\ parser' = [parser EXCEPT !.last_line = got.line]
                        /\ IF falsy(got.score)
                           THEN IF on_broken_hit(is_hadoop) = "continue"
                                THEN /\ counters' = counters + 1
                                     /\ UNCHANGED <<apc, hit_map, result>>
                                ELSE /\ apc' = "raised"
                                     /\ result' = Raise("BrokenLine",
                                            "Broken line while parsing score file: "
                                            \o parser.name)
                                     /\ UNCHANGED <<hit_map, counters>>
                           ELSE /\ hit_map' = count_hit(hit_map, key_gen_function(got.score.value))
                                /\ UNCHANGED <<apc, counters, result>>
    /\ UNCHANGED <<infilenames, is_hadoop, idx, openFiles, decVars, valVars>>

\* line 341
Return ==
    /\ apc = "for"
    /\ idx = Len(infilenames)
    /\ result' = ReturnDict(hit_map)
    /\ apc' = "returned"
    /\ parser' = NotRun
    /\ UNCHANGED <<infilenames, is_hadoop, idx, consumed, eof, hit_map, counters,
                   openFiles, decVars, valVars>>

\* map_input_files never calls close(): a file it opened is closed only when
\* the runtime finalizes the file object, which it may do, at a time of its
\* choosing, once nothing references the object
Finalize ==
    /\ \E f \in openFiles \ Referenced : openFiles' = openFiles \ {f}
    /\ UNCHANGED <<infilenames, is_hadoop, apc, idx, parser, consumed, eof, hit_map,
                   counters, result, decVars, valVars>>

NextAgg == OpenNext \/ ReadLine \/ Return \/ Finalize

SpecAgg == InitAgg /\ [][NextAgg]_vars

-----------------------------------------------------------------------------
(* Properties of the decoder (Spec).                                        *)

\* C1: score_str_to_dict never raises: for every line and either value of
\* ignore_offset it returns None or a completed 19-field score dict.
DecoderNeverRaises ==
    pc # "start" =>
        \/ hit.kind = "none"
        \/ hit.kind = "dict" /\ DOMAIN hit.value = {score_keys[i] : i \in 1..Len(score_keys)}

\* the offset C5 states for a decoded record
StatedOffset(d) ==
    LET segments == str_split(d["reference_id"], "|") IN
    IF /\ ~ignore_offset
       /\ Len(segments) >= 3
       /\ \A i \in 1..Len(segments[3]) : IsDigitChar(Char(segments[3], i))
       /\ segments[3] # ""
    THEN digits_value(segments[3])
    ELSE 0

\* C5: for every line that decodes to a record, ref_start and ref_end are the
\* two integers of ref_coords plus the offset, query_start and query_end are
\* the two integers of query_coords with no offset; the offset is the third
\* '|'-segment of reference_id when ignore_offset is false and that segment is
\* all-digit, and 0 in every other case.
CoordinateDerivation ==
    (pc # "start" /\ hit.kind = "dict") =>
        LET d == hit.value
            rtok == str_split(d["ref_coords"], " ")
            qtok == str_split(d["query_coords"], " ")
        IN  /\ d["ref_start"] = py_int(rtok[1]).val + StatedOffset(d)
            /\ d["ref_end"] = py_int(rtok[2]).val + StatedOffset(d)
            /\ d["query_start"] = py_int(qtok[1]).val
            /\ d["query_end"] = py_int(qtok[2]).val

\* C5 witness: a record decoded with a non-zero offset, which moved the
\* reference coordinates and left the query coordinates alone
CoordinateDerivationWitness ==
    /\ pc = "decoded"
    /\ ~ignore_offset
    /\ hit.kind = "dict"
    /\ hit.value["ref_coords"] = "30 40"
    /\ hit.value["ref_start"] = 1360
    /\ hit.value["ref_end"] = 1370
    /\ hit.value["query_start"] = 10
    /\ hit.value["query_end"] = 20

\* C6: the decoder accepts a line only if ref_coords and query_coords each
\* split into exactly 2 tokens; any other number of tokens never decodes to a
\* record.
CoordsExactlyTwo ==
    (pc # "start" /\ hit.kind = "dict") =>
        /\ Len(str_split(hit.value["ref_coords"], " ")) = 2
        /\ Len(str_split(hit.value["query_coords"], " ")) = 2

\* C7: decoding the canonical line of a record decoded with
\* ignore_offset = true gives the record back, in all 19 fields.
CanonicalRoundTrip ==
    (ignore_offset /\ pc \in {"encoded", "redecoded"}) =>
        /\ encoded.kind = "str"
        /\ pc = "redecoded" => redecoded = hit

\* the annotation line C10 states for the end-to-end line
E2EAnnotationPrefix == "5\t.\tgenic\t30\t40\t42\t+\t.\tName=Q1;"

\* C10 as stated: the end-to-end line decodes to ref_start 30, ref_end 40,
\* and its annotation line is produced and begins 5, ., genic, 30, 40, 42, +,
\* ., Name=Q1;
E2EAnnotationLine ==
    (line = E2ELine /\ ~ignore_offset /\ pc = "rendered") =>
        /\ hit.kind = "dict"
        /\ hit.value["ref_start"] = 30
        /\ hit.value["ref_end"] = 40
        /\ gff.kind = "str"
        /\ Len(gff.value) >= Len(E2EAnnotationPrefix)
        /\ SubSeq(gff.value, 1, Len(E2EAnnotationPrefix)) = E2EAnnotationPrefix

\* C10 amended: the end-to-end line decodes to ref_start 30, ref_end 40, and
\* score_dict_to_gff of that record raises BrokenScore: its reference_id has
\* chunk 5 and chunk_size 10, so the computed offset is 2730 and not the
\* seg_offset 0.
E2EAnnotationRejected ==
    (line = E2ELine /\ ~ignore_offset /\ pc = "rendered") =>
        /\ hit.kind = "dict"
        /\ hit.value["ref_start"] = 30
        /\ hit.value["ref_end"] = 40
        /\ gff = Raise("BrokenScore",
                       "Segment offset is not the expected value.\nExpected: 0\nComputed: 2730")

\* C10 witness: the end-to-end line has been decoded and rendered
E2EWitness ==
    /\ line = E2ELine
    /\ ~ignore_offset
    /\ pc = "rendered"
    /\ hit.kind = "dict"

-----------------------------------------------------------------------------
(* Properties of the validator (SpecValidate).                              *)

\* the integers a reference id carries in its chunk, chunk_size and
\* seg_offset segments
HasIntegerGeometry(d) ==
    /\ Cardinality(DOMAIN d) = 19
    /\ "reference_id" \in DOMAIN d
    /\ LET seg == str_split(d["reference_id"], "|") IN
       /\ Len(seg) >= 5
       /\ py_int(seg[2]).ok /\ py_int(seg[3]).ok /\ py_int(seg[5]).ok

ChunkNumberOf(d) == py_int(str_split(d["reference_id"], "|")[2]).val
ExpectedOffsetOf(d) == py_int(str_split(d["reference_id"], "|")[3]).val
ChunkSizeOf(d) == py_int(str_split(d["reference_id"], "|")[5]).val

\* the offset C8 states
StatedActualOffset(d) ==
    LET generic == 70 * ChunkSizeOf(d) * (ChunkNumberOf(d) - 1) - 70 IN
    IF generic = -70 THEN 0 ELSE generic

\* C8: validate_reference succeeds iff seg_offset equals
\* 70 * chunk_size * (chunk_number - 1) - 70, with -70 replaced by 0; so the
\* first chunk validates only with offset 0, whatever the chunk size, and
\* chunk 3 of size 10 only with 1330; a mismatch raises BrokenScore carrying
\* both values.
OffsetArithmetic ==
    (pc = "validated" /\ HasIntegerGeometry(score.value)) =>
        LET d == score.value IN
        /\ validation.kind = "none" <=> ExpectedOffsetOf(d) = StatedActualOffset(d)
        /\ ChunkNumberOf(d) = 1 => (validation.kind = "none" <=> ExpectedOffsetOf(d) = 0)
        /\ (ChunkNumberOf(d) = 3 /\ ChunkSizeOf(d) = 10)
              => (validation.kind = "none" <=> ExpectedOffsetOf(d) = 1330)
        /\ validation.kind # "none" =>
              validation = Raise("BrokenScore",
                  "Segment offset is not the expected value.\nExpected: "
                  \o int_to_str(ExpectedOffsetOf(d)) \o "\nComputed: "
                  \o int_to_str(StatedActualOffset(d)))

\* C8 witness: a first chunk of size 10 validated with seg_offset 0
OffsetArithmeticWitness ==
    /\ pc = "validated"
    /\ HasIntegerGeometry(score.value)
    /\ ChunkNumberOf(score.value) = 1
    /\ ChunkSizeOf(score.value) = 10
    /\ ExpectedOffsetOf(score.value) = 0
    /\ validation.kind = "none"

\* C9: validate_reference either returns normally or raises BrokenScore, and
\* nothing else, also for a reference_id of fewer than 8 segments.
ValidatorTwoOutcomes ==
    pc = "validated" =>
        \/ validation.kind = "none"
        \/ validation.kind = "raise" /\ validation.exc = "BrokenScore"

-----------------------------------------------------------------------------
(* Properties of the aggregator (SpecAgg).                                  *)

\* the lines read so far, as (source, line number) pairs
ReadPositions ==
    {p \in (1..Len(consumed)) \X (1..MaxLines) : p[2] <= Len(consumed[p[1]])}

LineAt(p) == consumed[p[1]][p[2]]

\* the line decodes to None (Malformed or Empty)
IsBroken(l) == ParsedLines[l].kind = "tuple" /\ falsy(ParsedLines[l].score)

\* the line decodes to a record
IsHit(l) == ParsedLines[l].kind = "tuple" /\ ~falsy(ParsedLines[l].score)

HitKey(l) == key_gen_function(ParsedLines[l].score.value)

\* the number of lines read that decode to a record of key k
Tally(k) == Cardinality({p \in ReadPositions : IsHit(LineAt(p)) /\ HitKey(LineAt(p)) = k})

\* hit_map counts, per key, the decoded lines read so far, and has no key
\* of count 0
MapMatchesTally ==
    /\ DOMAIN hit_map = {HitKey(l) : l \in {x \in FileLines : IsHit(x) /\ Tally(HitKey(x)) > 0}}
    /\ \A k \in DOMAIN hit_map : hit_map[k] = Tally(k)

\* the name the file object of source i carries
SourceName(i) == IF infilenames[i] = "/dev/stdin" THEN "<stdin>" ELSE infilenames[i]

\* C2: under fail-fast, once a line that decodes to None has been read the
\* invocation has raised BrokenLine naming the source being read; that line
\* is the last one read, hit_map counts exactly the lines before it, no later
\* source has been opened or read, and no mapping is returned.
FailFastStops ==
    ~is_hadoop =>
        \A p \in ReadPositions : IsBroken(LineAt(p)) =>
            /\ apc = "raised"
            /\ result = Raise("BrokenLine",
                   "Broken line while parsing score file: " \o SourceName(p[1]))
            /\ idx = p[1]
            /\ p[2] = Len(consumed[p[1]])
            /\ \A q \in ReadPositions : q # p => IsHit(LineAt(q))
            /\ \A i \in (p[1] + 1)..Len(infilenames) :
                  consumed[i] = <<>> /\ i \notin openFiles /\ i \notin eof
            /\ p[1] \notin eof
            /\ MapMatchesTally

\* C2 witness: fail-fast raised BrokenLine in the second source, after lines
\* of the first source and of the second had been counted
FailFastWitness ==
    /\ ~is_hadoop
    /\ apc = "raised"
    /\ result.kind = "raise"
    /\ result.exc = "BrokenLine"
    /\ idx = 2
    /\ Len(consumed[1]) > 0
    /\ Len(consumed[2]) > 1
    /\ IsBroken(consumed[2][Len(consumed[2])])

\* the number of lines read that decode to None
BrokenRead == Cardinality({p \in ReadPositions : IsBroken(LineAt(p))})

\* each source is read to its end before the next one is opened
ReadInOrder ==
    \A i \in 1..Len(infilenames) :
        (i <= idx) => \A j \in 1..(i - 1) : j \in eof

\* C3: under count-and-continue the invocation never stops by raising: it
\* reads every source to its end, in order, writes one counter line per line
\* that decodes to None, and returns the mapping that counts, per key, the
\* decoded lines of all sources.
CountAndContinueCompletes ==
    is_hadoop =>
        /\ apc # "raised"
        /\ ReadInOrder
        /\ counters = BrokenRead
        /\ apc = "returned" =>
              /\ eof = 1..Len(infilenames)
              /\ MapMatchesTally
              /\ result = ReturnDict(hit_map)

\* C3 but for the exceptions of the decoder: what count-and-continue does on
\* every run in which score_str_to_dict does not raise
CountAndContinueUnlessDecoderRaises ==
    is_hadoop =>
        /\ apc = "raised" => (result.kind = "raise" /\ result.exc = "ValueError")
        /\ ReadInOrder
        /\ counters = BrokenRead
        /\ MapMatchesTally
        /\ apc = "returned" =>
              /\ eof = 1..Len(infilenames)
              /\ result = ReturnDict(hit_map)

\* C4: when the invocation has ended, by returning or by raising BrokenLine,
\* no source it opened is still open, and a source is closed before the next
\* one is opened.
SourcesReleased ==
    /\ (apc = "returned" \/ (apc = "raised" /\ result.exc = "BrokenLine")) => openFiles = {}
    /\ Cardinality(openFiles) <= 1

=============================================================================
